---- MODULE Spec2Model ----
(***************************************************************************)
(* ticminimaxtoe: the Game object (board, current player, winner and       *)
(* legality queries), the AI player (random move, minimax search) and the  *)
(* main game loop.                                                         *)
(***************************************************************************)
EXTENDS Integers, Sequences, FiniteSets, TLC

VARIABLES
    board,            \* Game.board: the 9 cells, indexed 0..8
    current_player,   \* Game.current_player
    difficulty,       \* AI.difficulty: "easy" or "master"
    pc,               \* position of the running code
    op,               \* the operation that acted last
    arg,              \* the arguments that operation was called with, a tuple
    ret,              \* what that operation returned or raised
    candidates,       \* the list play() drew the cell from that main is about to play
    before,           \* the Game's fields before the last provisional move
    moves_applied,    \* number of make_move calls made by the main loop
    stack             \* the frames of __get_best_choice and __minimax being run

vars ==
    <<board, current_player, difficulty, pc, op, arg, ret, candidates, before,
      moves_applied, stack>>

\* Python's None, as a cell value and as a return value
None == "None"

\* an operation called with no argument
NoArg == <<>>

\* number of cells of the board
NumCells == 9

\* the cell indices, in board order
Cells == 0 .. (NumCells - 1)

\* how far below 0 and above 8 the cell numbers given to the operations range
MaxBelow == 1

MaxAbove == 1

\* the cell numbers typed at the prompt or passed by a caller
InputCells == (0 - MaxBelow) .. (NumCells - 1 + MaxAbove)

-----------------------------------------------------------------------------
(* Game *)

\* winning_combos with the second diagonal mistyped
winning_combos_wrong_diagonal ==
    << <<0, 1, 2>>, <<3, 4, 5>>, <<6, 7, 8>>,
       <<0, 3, 6>>, <<1, 4, 7>>, <<2, 5, 8>>,
       <<0, 4, 8>>, <<2, 4, 8>> >>

\* Game.winning_combos
winning_combos ==
    << <<0, 1, 2>>, <<3, 4, 5>>, <<6, 7, 8>>,
       <<0, 3, 6>>, <<1, 4, 7>>, <<2, 5, 8>>,
       <<0, 4, 8>>, <<2, 4, 6>> >>

\* Game.__init__: the fields of a new game
NewGame ==
    [board |-> [c \in Cells |-> None], current_player |-> "X"]

\* Game.get_enemy
get_enemy(player) ==
    IF player = "X" THEN "O" ELSE "X"

\* the cell indices as enumerate(self.board) yields them
CellSeq == [i \in 1 .. NumCells |-> i - 1]

\* Game.available_cells
available_cells(game) ==
    SelectSeq(CellSeq, LAMBDA c : game.board[c] = None)

\* get_own_squares testing "is not None" instead of "== player"
get_own_squares_any_mark(game, player) ==
    SelectSeq(CellSeq, LAMBDA c : game.board[c] # None)

\* Game.get_own_squares
get_own_squares(game, player) ==
    SelectSeq(CellSeq, LAMBDA c : game.board[c] = player)

\* the elements of a list: "pos in positions" is pos \in list_elems(positions)
list_elems(positions) ==
    {positions[j] : j \in DOMAIN positions}

\* the cells of each winning combo
combo_cells ==
    [i \in DOMAIN winning_combos |-> list_elems(winning_combos[i])]

\* the inner loops of get_winner: win stays True for a combo when no pos of it
\* is missing from the player's positions
owns_combo(game, player) ==
    LET positions == list_elems(get_own_squares(game, player))
    IN \E i \in DOMAIN combo_cells : combo_cells[i] \subseteq positions

\* Game.get_winner
get_winner(game) ==
    IF owns_combo(game, "X") THEN "X"
    ELSE IF owns_combo(game, "O") THEN "O"
    ELSE None

\* is_game_over looking at the Empty cells only
is_game_over_full_board_only(game) ==
    IF Len(available_cells(game)) = 0 THEN TRUE
    ELSE FALSE

\* Game.is_game_over
is_game_over(game) ==
    IF Len(available_cells(game)) = 0 THEN TRUE
    ELSE IF get_winner(game) # None THEN TRUE
    ELSE FALSE

\* Game.change_player
change_player(game) ==
    [game EXCEPT !.current_player = get_enemy(game.current_player)]

\* self.board[cell]: Python list indexing, a negative index counts from the end
list_index(cell) ==
    IF cell < 0 THEN cell + NumCells ELSE cell

\* self.board[cell] raises IndexError
index_error(cell) ==
    cell >= NumCells \/ cell < 0 - NumCells

\* make_move changing the player only when a mark is placed
make_move_keep_turn_on_erase(game, cell, player) ==
    IF player = None
    THEN [game EXCEPT !.board[list_index(cell)] = player]
    ELSE change_player([game EXCEPT !.board[list_index(cell)] = player])

\* Game.make_move, for a cell that does not raise IndexError
make_move(game, cell, player) ==
    change_player([game EXCEPT !.board[list_index(cell)] = player])

\* Game.validate_move
validate_move(game, cell) ==
    IF cell < 0 \/ cell > 8 THEN FALSE
    ELSE IF game.board[cell] # None THEN FALSE
    ELSE TRUE

-----------------------------------------------------------------------------
(* AI *)

max(a, b) == IF a >= b THEN a ELSE b

min(a, b) == IF a <= b THEN a ELSE b

\* min(list) and max(list) of an ascending or arbitrary non-empty list
RECURSIVE list_min(_)
list_min(s) ==
    IF Len(s) = 1 THEN s[1] ELSE min(s[1], list_min(Tail(s)))

RECURSIVE list_max(_)
list_max(s) ==
    IF Len(s) = 1 THEN s[1] ELSE max(s[1], list_max(Tail(s)))

\* the value of a finished game with +1 for a game X has won
terminal_value_X_wins_plus_1(game) ==
    IF get_winner(game) = "X" THEN 1
    ELSE IF get_winner(game) = "Y" THEN 1
    ELSE 0

\* the value of a finished game with the winner "O" tested for
terminal_value_O_wins(game) ==
    IF get_winner(game) = "X" THEN 0 - 1
    ELSE IF get_winner(game) = "O" THEN 1
    ELSE 0

\* the value minimax returns for a finished game
terminal_value(game) ==
    IF get_winner(game) = "X" THEN 0 - 1
    ELSE IF get_winner(game) = "Y" THEN 1
    ELSE 0

RECURSIVE minimax(_, _, _)
RECURSIVE minimax_loop(_, _, _, _, _, _)

\* __minimax giving up with the neutral value once the depth budget is used up
minimax_depth_cut(game, depth, player) ==
    IF depth <= 0 THEN [value |-> 0, game |-> game]
    ELSE IF is_game_over(game)
    THEN [value |-> terminal_value(game), game |-> game]
    ELSE IF player = "O"
         THEN minimax_loop(game, depth, player, available_cells(game), 1, 0 - 1)
         ELSE minimax_loop(game, depth, player, available_cells(game), 1, 1)

\* AI.__minimax: [value, game], game being the Game object as the call leaves it
minimax(game, depth, player) ==
    IF is_game_over(game) THEN [value |-> terminal_value(game), game |-> game]
    ELSE IF player = "O"
         THEN minimax_loop(game, depth, player, available_cells(game), 1, 0 - 1)
         ELSE minimax_loop(game, depth, player, available_cells(game), 1, 1)

\* the for loops of __minimax without the make_move(move, None) that takes the
\* move back
minimax_loop_no_undo(game, depth, player, moves, i, best_value) ==
    IF i > Len(moves) THEN [value |-> best_value, game |-> game]
    ELSE LET r == minimax(make_move(game, moves[i], player), depth - 1,
                          get_enemy(player))
         IN IF player = "O"
            THEN minimax_loop(r.game, depth, player, moves, i + 1,
                              max(best_value, r.value))
            ELSE minimax_loop(r.game, depth, player, moves, i + 1,
                              min(best_value, r.value))

\* the for loops of __minimax from the i-th move on: each turn applies the move,
\* recurses, undoes the move and keeps max(best_value, move_value) (player "O")
\* or min(best_value, move_value); the two outcomes of max and of min are
\* written out, so that each turn's value is computed before the next turn
minimax_loop(game, depth, player, moves, i, best_value) ==
    IF i > Len(moves) THEN [value |-> best_value, game |-> game]
    ELSE LET r == minimax(make_move(game, moves[i], player), depth - 1,
                          get_enemy(player))
         IN IF player = "O"
            THEN IF max(best_value, r.value) = best_value
                 THEN minimax_loop(make_move(r.game, moves[i], None), depth, player,
                                   moves, i + 1, best_value)
                 ELSE minimax_loop(make_move(r.game, moves[i], None), depth, player,
                                   moves, i + 1, r.value)
            ELSE IF min(best_value, r.value) = best_value
                 THEN minimax_loop(make_move(r.game, moves[i], None), depth, player,
                                   moves, i + 1, best_value)
                 ELSE minimax_loop(make_move(r.game, moves[i], None), depth, player,
                                   moves, i + 1, r.value)

\* the for loop of __get_best_choice from the i-th move on:
\* [choices, game]
RECURSIVE best_choice_loop(_, _, _, _, _, _)
best_choice_loop(game, depth, player, moves, i, choices) ==
    IF i > Len(moves) THEN [choices |-> choices, game |-> game]
    ELSE LET r == minimax(make_move(game, moves[i], player), depth - 1,
                          get_enemy(player))
             neutral_value == 0
         IN IF r.value > neutral_value
            THEN best_choice_loop(make_move(r.game, moves[i], None), depth, player,
                                  moves, i + 1, <<moves[i]>>)
            ELSE IF r.value = neutral_value
            THEN best_choice_loop(make_move(r.game, moves[i], None), depth, player,
                                  moves, i + 1, Append(choices, moves[i]))
            ELSE best_choice_loop(make_move(r.game, moves[i], None), depth, player,
                                  moves, i + 1, choices)

\* "choices is not None": choices is always a list
choices_is_not_None(choices) == TRUE

\* randint(min(s), max(s)): the set of cells it can return, empty when min() raises
\* ValueError on an empty list
randint_range(s) ==
    IF Len(s) = 0 THEN {} ELSE list_min(s) .. list_max(s)

\* AI.__get_best_choice: [choices, game, draw], draw the cells randint can return
get_best_choice(game, depth, player) ==
    LET scan == best_choice_loop(game, depth, player, available_cells(game), 1, <<>>)
    IN [choices |-> scan.choices,
        game |-> scan.game,
        draw |-> IF choices_is_not_None(scan.choices)
                 THEN randint_range(scan.choices)
                 ELSE randint_range(available_cells(scan.game))]

\* AI.__make_easy_move
make_easy_move(game) ==
    [choices |-> available_cells(game),
     game |-> game,
     draw |-> randint_range(available_cells(game))]

\* AI.__make_master_move
make_master_move(game) ==
    LET turns_left == Len(available_cells(game))
    IN get_best_choice(game, turns_left, game.current_player)

\* AI.play
play(game, diff) ==
    IF diff = "easy" THEN make_easy_move(game) ELSE make_master_move(game)

-----------------------------------------------------------------------------
(* main: the game loop *)

\* the Game object held in the variables
TheGame == [board |-> board, current_player |-> current_player]

\* no snapshot taken
NoSnapshot == [board |-> <<>>, current_player |-> None]

\* main, lines 187-198: parse the arguments, create the game and the AI
Init ==
    /\ board = NewGame.board
    /\ current_player = NewGame.current_player
    /\ difficulty \in {"easy", "master"}
    /\ pc = "loop"
    /\ op = "init"
    /\ arg = NoArg
    /\ ret = None
    /\ candidates = <<>>
    /\ before = NoSnapshot
    /\ stack = <<>>
    /\ moves_applied = 0

\* the human's turn taken without the loop condition of line 200
HumanMove_after_game_over(cell) ==
    /\ pc = "loop"
    /\ current_player = "X"
    /\ IF validate_move(TheGame, cell)
       THEN LET g == make_move(TheGame, cell, current_player)
            IN /\ board' = g.board
               /\ current_player' = g.current_player
               /\ op' = "human_move"
               /\ moves_applied' = moves_applied + 1
       ELSE /\ op' = "human_rejected"
            /\ UNCHANGED <<board, current_player, moves_applied>>
    /\ arg' = NoArg
    /\ ret' = None
    /\ UNCHANGED <<difficulty, pc, candidates, before, stack>>

\* the human's turn (lines 203-209): a number typed at the prompt is validated;
\* a rejected one is asked for again, an accepted one is played
HumanMove(cell) ==
    /\ pc = "loop"
    /\ ~is_game_over(TheGame)
    /\ current_player = "X"
    /\ IF validate_move(TheGame, cell)
       THEN LET g == make_move(TheGame, cell, current_player)
            IN /\ board' = g.board
               /\ current_player' = g.current_player
               /\ op' = "human_move"
               /\ moves_applied' = moves_applied + 1
       ELSE /\ op' = "human_rejected"
            /\ UNCHANGED <<board, current_player, moves_applied>>
    /\ arg' = NoArg
    /\ ret' = None
    /\ UNCHANGED <<difficulty, pc, candidates, before, stack>>

\* the AI's turn, first half (line 211): ai_player.play() runs and returns a cell,
\* or raises ValueError, which nothing catches
AIPlay ==
    /\ pc = "loop"
    /\ ~is_game_over(TheGame)
    /\ current_player # "X"
    /\ \E p \in {play(TheGame, difficulty)} :
          /\ board' = p.game.board
          /\ current_player' = p.game.current_player
          /\ candidates' = p.choices
          /\ IF p.draw = {}
             THEN /\ ret' = "ValueError"
                  /\ pc' = "crashed"
             ELSE /\ ret' \in p.draw
                  /\ pc' = "ai_move"
    /\ op' = "play"
    /\ arg' = NoArg
    /\ UNCHANGED <<difficulty, before, moves_applied, stack>>

\* the AI's turn, second half (line 211):
\* game.make_move(<the cell returned>, game.current_player)
AIMove ==
    /\ pc = "ai_move"
    /\ LET g == make_move(TheGame, ret, current_player)
       IN /\ board' = g.board
          /\ current_player' = g.current_player
    /\ op' = "ai_move"
    /\ arg' = NoArg
    /\ ret' = None
    /\ pc' = "loop"
    /\ candidates' = <<>>
    /\ moves_applied' = moves_applied + 1
    /\ UNCHANGED <<difficulty, before, stack>>

\* the loop condition fails (line 200): the board is printed and main returns
GameOver ==
    /\ pc = "loop"
    /\ is_game_over(TheGame)
    /\ pc' = "done"
    /\ op' = "game_over"
    /\ arg' = NoArg
    /\ ret' = None
    /\ UNCHANGED <<board, current_player, difficulty, candidates, before,
                   moves_applied, stack>>

Next ==
    \/ \E cell \in InputCells : HumanMove(cell)
    \/ AIPlay
    \/ AIMove
    \/ GameOver

Spec == Init /\ [][Next]_vars

-----------------------------------------------------------------------------
(* The Game object called directly: one method call on a Game in any state *)

\* the marks
Marks == {"X", "O"}

\* A Game in any state its methods can bring it to: make_move writes any of
\* None, "X", "O" to any cell and toggles current_player between "X" and "O", so
\* from a new game every assignment of the cells and either player is reached.
InitGame ==
    /\ board \in [Cells -> Marks \cup {None}]
    /\ current_player \in Marks
    /\ difficulty = "master"
    /\ pc = "call"
    /\ op = "init"
    /\ arg = NoArg
    /\ ret = None
    /\ candidates = <<>>
    /\ before = NoSnapshot
    /\ stack = <<>>
    /\ moves_applied = 0

\* what a query leaves alone
QueryFrame ==
    /\ pc' = "returned"
    /\ UNCHANGED <<board, current_player, difficulty, candidates, before,
                   moves_applied, stack>>

CallGetWinner ==
    /\ pc = "call"
    /\ op' = "get_winner"
    /\ arg' = NoArg
    /\ ret' = get_winner(TheGame)
    /\ QueryFrame

CallIsGameOver ==
    /\ pc = "call"
    /\ op' = "is_game_over"
    /\ arg' = NoArg
    /\ ret' = is_game_over(TheGame)
    /\ QueryFrame

CallAvailableCells ==
    /\ pc = "call"
    /\ op' = "available_cells"
    /\ arg' = NoArg
    /\ ret' = available_cells(TheGame)
    /\ QueryFrame

CallGetOwnSquares(player) ==
    /\ pc = "call"
    /\ op' = "get_own_squares"
    /\ arg' = <<player>>
    /\ ret' = get_own_squares(TheGame, player)
    /\ QueryFrame

CallValidateMove(cell) ==
    /\ pc = "call"
    /\ op' = "validate_move"
    /\ arg' = <<cell>>
    /\ ret' = validate_move(TheGame, cell)
    /\ QueryFrame

\* game.make_move(cell, player). A mark put on an empty cell is a provisional
\* move, which the caller may take back: the fields before it are remembered.
CallMakeMove(cell, player) ==
    /\ pc = "call"
    /\ op' = "make_move"
    /\ arg' = <<cell, player>>
    /\ IF index_error(cell)
       THEN /\ ret' = "IndexError"
            /\ pc' = "returned"
            /\ UNCHANGED <<board, current_player, before>>
       ELSE LET g == make_move(TheGame, cell, player)
            IN /\ board' = g.board
               /\ current_player' = g.current_player
               /\ ret' = None
               /\ IF validate_move(TheGame, cell) /\ player # None
                  THEN pc' = "moved" /\ before' = TheGame
                  ELSE pc' = "returned" /\ UNCHANGED before
    /\ UNCHANGED <<difficulty, candidates, moves_applied, stack>>

\* game.make_move(move, None) after a provisional move on the same cell
\* (lines 124, 132, 154)
CallUndoMove ==
    /\ pc = "moved"
    /\ LET g == make_move(TheGame, arg[1], None)
       IN /\ board' = g.board
          /\ current_player' = g.current_player
    /\ op' = "undo_move"
    /\ arg' = <<arg[1], None>>
    /\ ret' = None
    /\ pc' = "returned"
    /\ UNCHANGED <<difficulty, candidates, before, moves_applied, stack>>

NextGame ==
    \/ CallGetWinner
    \/ CallIsGameOver
    \/ CallAvailableCells
    \/ \E player \in Marks : CallGetOwnSquares(player)
    \/ \E cell \in InputCells : CallValidateMove(cell)
    \/ \E cell \in InputCells, player \in Marks \cup {None} : CallMakeMove(cell, player)
    \/ CallUndoMove

SpecGame == InitGame /\ [][NextGame]_vars

-----------------------------------------------------------------------------
(* The AI's value function called directly, on the new game and on the games
   that alternate legal moves lead to *)

\* the largest number of Empty cells of a board minimax is called on, the
\* opening board aside
MaxSearchCells == 4

\* the depth budgets minimax is called with, besides the number of Empty cells
DepthBudgets == {0, NumCells}

InitSearch ==
    /\ board = NewGame.board
    /\ current_player = NewGame.current_player
    /\ difficulty = "master"
    /\ pc = "call"
    /\ op = "init"
    /\ arg = NoArg
    /\ ret = None
    /\ candidates = <<>>
    /\ before = NoSnapshot
    /\ stack = <<>>
    /\ moves_applied = 0

\* a legal move by the player whose turn it is (lines 204, 209)
PlayMove(cell) ==
    /\ pc = "call"
    /\ ~is_game_over(TheGame)
    /\ validate_move(TheGame, cell)
    /\ LET g == make_move(TheGame, cell, current_player)
       IN /\ board' = g.board
          /\ current_player' = g.current_player
    /\ op' = "make_move"
    /\ arg' = NoArg
    /\ ret' = None
    /\ UNCHANGED <<difficulty, pc, candidates, before, moves_applied, stack>>

\* what a call of minimax does to the variables
MinimaxCall(depth, player) ==
    /\ \E r \in {minimax(TheGame, depth, player)} :
          /\ board' = r.game.board
          /\ current_player' = r.game.current_player
          /\ ret' = r.value
    /\ op' = "minimax"
    /\ arg' = <<depth, player>>
    /\ pc' = "returned"
    /\ UNCHANGED <<difficulty, candidates, before, moves_applied, stack>>

\* minimax(game, 9, "O") on the new game
CallMinimaxOpening ==
    /\ pc = "call"
    /\ board = NewGame.board
    /\ MinimaxCall(NumCells, "O")

\* minimax(game, depth, player) on a game with few Empty cells
CallMinimax(depth, player) ==
    /\ pc = "call"
    /\ Len(available_cells(TheGame)) <= MaxSearchCells
    /\ MinimaxCall(depth, player)

NextSearch ==
    \/ \E cell \in InputCells : PlayMove(cell)
    \/ CallMinimaxOpening
    \/ \E depth \in DepthBudgets \cup {Len(available_cells(TheGame))}, player \in Marks :
          CallMinimax(depth, player)

SpecSearch == InitSearch /\ [][NextSearch]_vars

-----------------------------------------------------------------------------
(* main with the master search run call by call: each provisional move, each
   entry to __minimax and each return is a step, the Game object being the one
   main plays on *)

\* the largest number of Empty cells of a board whose search is run call by
\* call; the search of a board with more is taken in one step
MaxStepCells == 3

\* the frame of the call being run
top == stack[Len(stack)]

\* the frame of the call that made it
caller == stack[Len(stack) - 1]

\* the AI's turn taken in one step
AIPlayAtOnce ==
    /\ difficulty = "easy" \/ Len(available_cells(TheGame)) > MaxStepCells
    /\ AIPlay

\* the AI's turn in master mode (line 211): play, __make_master_move and
\* __get_best_choice up to its for loop
CallGetBestChoice ==
    /\ pc = "loop"
    /\ ~is_game_over(TheGame)
    /\ current_player # "X"
    /\ difficulty = "master"
    /\ Len(available_cells(TheGame)) <= MaxStepCells
    /\ LET turns_left == Len(available_cells(TheGame))
           player == current_player
       IN stack' = <<[fn |-> "get_best_choice", depth |-> turns_left,
                      player |-> player, moves |-> available_cells(TheGame),
                      i |-> 1, choices |-> <<>>]>>
    /\ pc' = "for"
    /\ op' = "get_best_choice"
    /\ arg' = NoArg
    /\ ret' = None
    /\ UNCHANGED <<board, current_player, difficulty, candidates, before,
                   moves_applied>>

\* the recursive call passing the same player on
callee_frame_same_player(frame) ==
    [fn |-> "minimax", depth |-> frame.depth - 1, player |-> frame.player]

\* the recursive call passing the depth on as it is
callee_frame_same_depth(frame) ==
    [fn |-> "minimax", depth |-> frame.depth, player |-> get_enemy(frame.player)]

\* self.__minimax(game, depth-1, game.get_enemy(player)): the frame of the call
callee_frame(frame) ==
    [fn |-> "minimax", depth |-> frame.depth - 1, player |-> get_enemy(frame.player)]

\* a for loop takes its next move: game.make_move(move, player), then the call
\* of __minimax
ProvisionalMove ==
    /\ pc = "for"
    /\ top.i <= Len(top.moves)
    /\ LET g == make_move(TheGame, top.moves[top.i], top.player)
       IN /\ board' = g.board
          /\ current_player' = g.current_player
    /\ stack' = Append(stack, callee_frame(top))
    /\ pc' = "entry"
    /\ op' = "provisional_move"
    /\ arg' = NoArg
    /\ ret' = None
    /\ UNCHANGED <<difficulty, candidates, before, moves_applied>>

\* what the caller's loop does with the value of its move: best_value or
\* choices updated, on to the next move
resume(frame, move_value) ==
    IF frame.fn = "minimax"
    THEN [frame EXCEPT !.i = @ + 1,
                       !.best_value = IF frame.player = "O"
                                      THEN max(@, move_value)
                                      ELSE min(@, move_value)]
    ELSE LET neutral_value == 0
             move == frame.moves[frame.i]
         IN [frame EXCEPT !.i = @ + 1,
                          !.choices = IF move_value > neutral_value THEN <<move>>
                                      ELSE IF move_value = neutral_value
                                      THEN Append(@, move)
                                      ELSE @]

\* __minimax returns move_value; the caller takes its move back with
\* game.make_move(move, None) and goes on with its loop
Return(move_value) ==
    /\ LET g == make_move(TheGame, caller.moves[caller.i], None)
       IN /\ board' = g.board
          /\ current_player' = g.current_player
    /\ stack' = Append(SubSeq(stack, 1, Len(stack) - 2), resume(caller, move_value))
    /\ pc' = "for"
    /\ op' = "undo_move"
    /\ arg' = NoArg
    /\ ret' = move_value
    /\ UNCHANGED <<difficulty, candidates, before, moves_applied>>

\* __minimax on a finished game (lines 112-117)
MinimaxBaseCase ==
    /\ pc = "entry"
    /\ is_game_over(TheGame)
    /\ Return(terminal_value(TheGame))

\* __minimax starting its loop whether the game is over or not
MinimaxStartLoop_game_over_too ==
    /\ pc = "entry"
    /\ stack' = [stack EXCEPT ![Len(stack)] =
                    [fn |-> "minimax", depth |-> top.depth, player |-> top.player,
                     moves |-> available_cells(TheGame), i |-> 1,
                     best_value |-> IF top.player = "O" THEN 0 - 1 ELSE 1]]
    /\ pc' = "for"
    /\ op' = "minimax"
    /\ arg' = NoArg
    /\ ret' = None
    /\ UNCHANGED <<board, current_player, difficulty, candidates, before,
                   moves_applied>>

\* __minimax on a game that goes on: best_value set, the for loop started
\* (lines 119-121, 128-129)
MinimaxStartLoop ==
    /\ pc = "entry"
    /\ ~is_game_over(TheGame)
    /\ stack' = [stack EXCEPT ![Len(stack)] =
                    [fn |-> "minimax", depth |-> top.depth, player |-> top.player,
                     moves |-> available_cells(TheGame), i |-> 1,
                     best_value |-> IF top.player = "O" THEN 0 - 1 ELSE 1]]
    /\ pc' = "for"
    /\ op' = "minimax"
    /\ arg' = NoArg
    /\ ret' = None
    /\ UNCHANGED <<board, current_player, difficulty, candidates, before,
                   moves_applied>>

\* the for loop of __minimax is through: return best_value (lines 126, 134)
MinimaxLoopEnd ==
    /\ pc = "for"
    /\ top.fn = "minimax"
    /\ top.i > Len(top.moves)
    /\ Return(top.best_value)

\* the for loop of __get_best_choice is through (lines 161-164): play returns
\* the cell drawn, or min() raises ValueError
GetBestChoiceEnd ==
    /\ pc = "for"
    /\ top.fn = "get_best_choice"
    /\ top.i > Len(top.moves)
    /\ LET draw == IF choices_is_not_None(top.choices)
                   THEN randint_range(top.choices)
                   ELSE randint_range(available_cells(TheGame))
       IN IF draw = {}
          THEN /\ ret' = "ValueError"
               /\ pc' = "crashed"
          ELSE /\ ret' \in draw
               /\ pc' = "ai_move"
    /\ candidates' = top.choices
    /\ stack' = <<>>
    /\ op' = "play"
    /\ arg' = NoArg
    /\ UNCHANGED <<board, current_player, difficulty, before, moves_applied>>

NextSteps ==
    \/ \E cell \in InputCells : HumanMove(cell)
    \/ AIPlayAtOnce
    \/ CallGetBestChoice
    \/ ProvisionalMove
    \/ MinimaxBaseCase
    \/ MinimaxStartLoop
    \/ MinimaxLoopEnd
    \/ GetBestChoiceEnd
    \/ AIMove
    \/ GameOver

SpecSteps == Init /\ [][NextSteps]_vars

\* a step of a search that has begun; the interpreter runs the call to its end
SearchStep ==
    \/ ProvisionalMove
    \/ MinimaxBaseCase
    \/ MinimaxStartLoop
    \/ MinimaxLoopEnd
    \/ GetBestChoiceEnd

SpecStepsFair == SpecSteps /\ WF_vars(SearchStep)

-----------------------------------------------------------------------------
(* Properties *)

\* a board written row by row
BoardOf(rows) == [c \in Cells |-> rows[c + 1]]

\* the 8 lines of the grid: rows, columns, diagonals
Lines ==
    {{0, 1, 2}, {3, 4, 5}, {6, 7, 8},
     {0, 3, 6}, {1, 4, 7}, {2, 5, 8},
     {0, 4, 8}, {2, 4, 6}}

\* mark m occupies all three cells of some line
OwnsLine(m) == \E l \in Lines : \A c \in l : board[c] = m

\* number of cells holding mark m
CountOf(m) == Cardinality({c \in Cells : board[c] = m})

\* a list of cell indices in strictly ascending order
Ascending(s) ==
    /\ \A j \in DOMAIN s : s[j] \in Cells
    /\ \A j, k \in DOMAIN s : j < k => s[j] < s[k]

\* C2: in easy mode the cell play() returns is an Empty cell of the board,
\* whatever the random draw
C2_EasyReturnsEmptyCell ==
    (op = "play" /\ difficulty = "easy" /\ pc = "ai_move")
        => ret \in list_elems(available_cells(TheGame))

\* C1: in master mode, when some legal move has a minimax value >= 0, the cell
\* play() returns is one of the candidates the scan kept, and an Empty cell,
\* whatever the random draw
C1_MasterReturnsCandidate ==
    (op = "play" /\ difficulty = "master" /\ Len(candidates) > 0)
        => (ret \in list_elems(candidates) /\ board[ret] = None)

\* C3: play() in master mode leaves all 9 cells and current_player as they were
\* when it was called
C3_PlayNoNetMutation ==
    [][(op' = "play" /\ difficulty = "master")
          => (board' = board /\ current_player' = current_player)]_vars

\* C3 witness: the search has run on a board with two X and one O and returned
\* a cell
C3_Witness ==
    /\ op = "play"
    /\ difficulty = "master"
    /\ pc = "ai_move"
    /\ CountOf("X") = 2
    /\ CountOf("O") = 1

\* C5: play() fails exactly when no cell is Empty; with an Empty cell it
\* returns a cell, in either mode
C5_PlayFailsOnlyWithoutEmptyCell ==
    op = "play" => (pc = "crashed" <=> Len(available_cells(TheGame)) = 0)

\* C4: a move on a cell outside 0..8 or on an occupied cell fails with
\* InvalidMove and leaves the board and current_player unchanged; stated of the
\* make_move the main loop performs with the cell the AI returned
C4_InvalidMoveRejected ==
    [][(pc = "ai_move" /\ (ret \notin Cells \/ board[ret] # None))
          => (ret' = "InvalidMove" /\ board' = board
              /\ current_player' = current_player)]_vars

\* C6: a mark put on an Empty cell and then erased by make_move(cell, None)
\* leaves all 9 cells and current_player as they were before the mark was put
C6_ApplyUndoRestores ==
    op = "undo_move" => (board = before.board
                         /\ current_player = before.current_player)

\* C6 witness: an O put on cell 4 of a board that holds other marks, with X to
\* move, has been erased again
C6_Witness ==
    /\ op = "undo_move"
    /\ arg = <<4, None>>
    /\ before.current_player = "X"
    /\ before.board = BoardOf(<<"X", None, None, None, None, None, "O", None, "X">>)
    /\ board[4] = None

\* C7: in a game run by main the number of X marks minus the number of O marks
\* is 0 or 1, and the number of marks equals the number of moves applied
C7_MarkCounts ==
    /\ CountOf("X") - CountOf("O") \in {0, 1}
    /\ CountOf("X") + CountOf("O") = moves_applied

\* C8: get_winner returns X when X owns a line, else O when O owns a line, else
\* None; X for [X,X,X,_,_,_,_,_,_], O for [O,O,O,_,_,_,_,_,_], None for the
\* empty board; and after X plays cell 2 on [X,X,_,_,O,O,_,_,_] the winner is X
\* and the game is over
C8_Winner ==
    /\ op = "get_winner"
          => ret = (IF OwnsLine("X") THEN "X"
                    ELSE IF OwnsLine("O") THEN "O" ELSE None)
    /\ (op = "get_winner"
         /\ board = BoardOf(<<"X", "X", "X", None, None, None, None, None, None>>))
          => ret = "X"
    /\ (op = "get_winner"
         /\ board = BoardOf(<<"O", "O", "O", None, None, None, None, None, None>>))
          => ret = "O"
    /\ (op = "get_winner" /\ board = NewGame.board) => ret = None
    /\ (pc = "moved" /\ arg = <<2, "X">>
         /\ before.board = BoardOf(<<"X", "X", None, None, "O", "O", None, None, None>>))
          => (get_winner(TheGame) = "X" /\ is_game_over(TheGame))

\* C8 witness: get_winner has returned X for a board where X owns the top row
\* and O the middle row
C8_Witness ==
    /\ op = "get_winner"
    /\ board = BoardOf(<<"X", "X", "X", "O", "O", "O", None, None, None>>)
    /\ ret = "X"

\* C9: minimax on the empty opening board at depth 9 with O to move returns 0,
\* and the value minimax returns for a board and a player to move does not
\* depend on the depth budget it is given: it is the value returned with the
\* budget set to the number of Empty cells
C9_MinimaxValue ==
    /\ (op = "minimax" /\ board = NewGame.board /\ arg = <<NumCells, "O">>)
          => ret = 0
    /\ (op = "minimax" /\ arg[1] # Len(available_cells(TheGame)))
          => ret = minimax(TheGame, Len(available_cells(TheGame)), arg[2]).value

\* C9 witness: minimax(game, 9, "O") has returned 0 on the empty board
C9_Witness ==
    /\ op = "minimax"
    /\ board = NewGame.board
    /\ arg = <<NumCells, "O">>
    /\ ret = 0

\* C10: available_cells, get_own_squares(X) and get_own_squares(O) are ascending
\* lists of cell indices, pairwise disjoint, whose lengths sum to 9, in every
\* state of the Game, the ones between a provisional move and its undo included
C10_CellListsPartition ==
    LET a == IF op = "available_cells" THEN ret ELSE available_cells(TheGame)
        x == IF op = "get_own_squares" /\ arg = <<"X">>
             THEN ret ELSE get_own_squares(TheGame, "X")
        o == IF op = "get_own_squares" /\ arg = <<"O">>
             THEN ret ELSE get_own_squares(TheGame, "O")
    IN /\ Ascending(a) /\ Ascending(x) /\ Ascending(o)
       /\ list_elems(a) \cap list_elems(x) = {}
       /\ list_elems(a) \cap list_elems(o) = {}
       /\ list_elems(x) \cap list_elems(o) = {}
       /\ Len(a) + Len(x) + Len(o) = NumCells

\* C10 witness: get_own_squares(O) has returned [1, 4, 5] on a board with three
\* X, three O and three Empty cells
C10_Witness ==
    /\ op = "get_own_squares"
    /\ arg = <<"O">>
    /\ board = BoardOf(<<"X", "O", "X", None, "O", "O", None, "X", None>>)
    /\ ret = <<1, 4, 5>>

\* C11: is_game_over returns True exactly when no cell is Empty or get_winner
\* is not None: True for the full board [X,O,X,X,O,O,O,X,X] that has no winning
\* line, False for every board with an Empty cell and no winner
C11_IsGameOver ==
    /\ op = "is_game_over"
          => (ret <=> ((\A c \in Cells : board[c] # None)
                       \/ OwnsLine("X") \/ OwnsLine("O")))
    /\ (op = "is_game_over"
         /\ board = BoardOf(<<"X", "O", "X", "X", "O", "O", "O", "X", "X">>))
          => ret = TRUE
    /\ (op = "is_game_over" /\ (\E c \in Cells : board[c] = None)
         /\ ~OwnsLine("X") /\ ~OwnsLine("O"))
          => ret = FALSE

\* C11 witness: is_game_over has returned True on a board where O owns the
\* middle column and four cells are Empty
C11_Witness ==
    /\ op = "is_game_over"
    /\ board = BoardOf(<<"X", "O", None, None, "O", "X", None, "O", None>>)
    /\ ret = TRUE

\* mark m occupies all three cells of some line of board b
Owns(b, m) == \E l \in Lines : \A c \in l : b[c] = m

\* the outcome of the game on board b is InProgress: an Empty cell, no winner
InProgress(b) ==
    /\ \E c \in Cells : b[c] = None
    /\ ~Owns(b, "X")
    /\ ~Owns(b, "O")

\* C12: every move, of main or provisional in the search, is applied to an
\* InProgress game only; a move of main by mark m never leaves the opponent of
\* m owning a line; once a game of main is Won or Drawn its board is never
\* written again and main ends
C12_OutcomeStateMachine ==
    [][/\ (op' \in {"human_move", "ai_move", "provisional_move"})
              => InProgress(board)
       /\ (op' \in {"human_move", "ai_move"})
              => ~Owns(board', get_enemy(current_player))
       /\ (pc \in {"loop", "done"} /\ ~InProgress(board))
              => (board' = board /\ pc' = "done")]_vars

\* C12 witness: in a search of main's game a provisional move of X, two calls
\* deep, has completed a line of X
C12_Witness ==
    /\ op = "provisional_move"
    /\ Len(stack) = 3
    /\ top.player = "O"
    /\ OwnsLine("X")

\* C13: every make_move, whatever mark it is given (X, O, or None to take a
\* move back), changes current_player to the other player; each move of main
\* writes the mark of current_player as it was just before the move on one
\* cell, the movers being X, O, X, ... in turn; and at every entry to
\* __minimax in a search the player argument is the game's current_player
C13_TurnToggle ==
    [][/\ (op' \in {"human_move", "ai_move", "provisional_move", "undo_move"})
              => current_player' = get_enemy(current_player)
       /\ (op' \in {"human_move", "ai_move"})
              => /\ \E c \in Cells : board' = [board EXCEPT ![c] = current_player]
                 /\ current_player = (IF moves_applied % 2 = 0 THEN "X" ELSE "O")
       /\ (pc' = "entry")
              => stack'[Len(stack')].player = current_player']_vars

\* C13 witness: a value has come back to the loop of a __minimax call whose
\* player is X, the move was taken back, and current_player is X again
C13_Witness ==
    /\ op = "undo_move"
    /\ Len(stack) = 2
    /\ top.fn = "minimax"
    /\ top.player = "X"
    /\ top.i = 2
    /\ current_player = "X"
    /\ moves_applied = 7

\* C14: when the scan of __get_best_choice has kept no candidate on a board
\* with an Empty cell, play() does not fail: it returns a cell drawn from the
\* range min..max of available_cells()
C14_FallbackReturnsCell ==
    (op = "play" /\ difficulty = "master" /\ Len(candidates) = 0
     /\ Len(available_cells(TheGame)) > 0)
        => (pc = "ai_move" /\ ret \in randint_range(available_cells(TheGame)))

\* C15: minimax returns -1 for a game X has won and 0 for a game O has won,
\* the value of a draw, and for every game and either player to move the
\* value it returns is -1 or 0, never +1
C15_LegacyValues ==
    op = "minimax"
        => /\ ret \in {0 - 1, 0}
           /\ OwnsLine("X") => ret = 0 - 1
           /\ (OwnsLine("O") /\ ~OwnsLine("X")) => ret = 0

\* C15 witness: minimax has returned 0 for a game O has won, called with X to
\* move
C15_Witness ==
    /\ op = "minimax"
    /\ arg[2] = "X"
    /\ board = BoardOf(<<"O", "O", "O", "X", "X", None, "X", None, None>>)
    /\ ret = 0

\* C16 as stated: for a finished game minimax returns +1 if the winner is X,
\* and 0 if there is no winner and no Empty cell
C16_TerminalValue_Stated ==
    op = "minimax"
        => /\ OwnsLine("X") => ret = 1
           /\ (~OwnsLine("X") /\ ~OwnsLine("O") /\ \A c \in Cells : board[c] # None)
                 => ret = 0

\* C16: for a finished game minimax returns -1 if the winner is X, and 0 if
\* there is no winner and no Empty cell
C16_TerminalValue ==
    op = "minimax"
        => /\ OwnsLine("X") => ret = 0 - 1
           /\ (~OwnsLine("X") /\ ~OwnsLine("O") /\ \A c \in Cells : board[c] # None)
                 => ret = 0

\* C16 witness: minimax has returned -1 for a game X has won with its fifth
\* mark on a full board
C16_Witness ==
    /\ op = "minimax"
    /\ board = BoardOf(<<"X", "O", "X", "O", "X", "O", "X", "X", "O">>)
    /\ ret = 0 - 1

\* number of Empty cells of board b
Empties(b) == Cardinality({c \in Cells : b[c] = None})

\* C17: a master search that has begun comes to its end; each call of
\* __minimax is made on a game with fewer Empty cells than the game of its
\* caller; the calls nested are never more than the Empty cells the search
\* began with, which are at most 9; and the depth a call is given is the
\* number of Empty cells of the game it is given, never negative
C17_SearchTerminates ==
    /\ [][/\ (op' = "provisional_move") => Empties(board') < Empties(board)
          /\ (pc' \in {"for", "entry"})
                => /\ Len(stack') - 1 <= Len(stack'[1].moves)
                   /\ Len(stack'[1].moves) <= NumCells
          /\ (op' \in {"get_best_choice", "provisional_move"})
                => /\ stack'[Len(stack')].depth = Empties(board')
                   /\ stack'[Len(stack')].depth >= 0]_vars
    /\ (pc \in {"for", "entry"}) ~> (pc \in {"ai_move", "crashed"})

\* C17 witness: a search begun with three Empty cells has three calls of
\* __minimax nested, the innermost given depth 0 on a full board
C17_Witness ==
    /\ pc = "entry"
    /\ Len(stack) = 4
    /\ Len(stack[1].moves) = 3
    /\ top.depth = 0
    /\ Empties(board) = 0

\* C18: in every state of a game main runs, and in every state a master
\* search passes through, X and O do not both own a line
C18_AtMostOneWinner ==
    ~(OwnsLine("X") /\ OwnsLine("O"))

\* C18 witness: a provisional move of O in a search has completed a line of O
\* on a board that holds four X
C18_Witness ==
    /\ op = "provisional_move"
    /\ OwnsLine("O")
    /\ ~OwnsLine("X")
    /\ CountOf("X") = 4

\* C19: in master mode a game main runs never reaches a board on which X
\* owns a line: the AI never loses
C19_MasterNeverLoses ==
    difficulty = "master" => ~OwnsLine("X")

\* C20: every game main runs comes to its end with at most 9 moves applied,
\* and no turn of the AI fails; stated of the runs so far: the moves applied
\* are never more than 9 and play() never raises
C20_GameEndsWithinNineMoves ==
    /\ moves_applied <= NumCells
    /\ pc # "crashed"

====
